---- MODULE Spec2Model ----
(***************************************************************************)
(* Model of the xhandleShape locator plugin (animformed/mrt):              *)
(*   - plugin registration / de-registration (xhandleNodePlugin.cpp),      *)
(*   - the "xhandle" creation command with undo / redo (xhandleNode.cpp),  *)
(*   - the viewport draw of the locator (xhandleShape::draw / drawShapes). *)
(* The host (registry, scene, undo queue, GL function table) is modelled   *)
(* only as far as the plugin code calls into it.                           *)
(***************************************************************************)
EXTENDS Integers, Sequences, FiniteSets, TLC

\* ------------------------------------------------------------------------
\* Bounds
\* ------------------------------------------------------------------------
MaxCreate == 2      \* node creations (doIt / redoIt) in one behaviour
MaxArgs == 3        \* length of the MArgList handed to doIt
MaxGeom == 1        \* host geometry cases (world matrix, camera, unit): 0..MaxGeom

\* ------------------------------------------------------------------------
\* Host values
\* ------------------------------------------------------------------------
kSuccess == "kSuccess"
kFailure == "kFailure"
kInvalidParameter == "kInvalidParameter"
kUnknownParameter == "kUnknownParameter"

NodeTypeName == "xhandleShape"
CommandName == "xhandle"

NullObj == 0                    \* MObject::kNullObj
Origin == <<0, 0, 0>>           \* default MPoint / default localPosition
GivenPoint == <<1, 2, 3>>       \* a point passed on the command line

\* One MArgList element: a string or a point.
StrArg(s) == [k |-> "s", s |-> s, p |-> Origin]
PtArg(p) == [k |-> "p", s |-> "", p |-> p]

ArgTokens ==
    {StrArg("-name"), StrArg("-n"), StrArg("-position"), StrArg("-p"),
     StrArg("a"), StrArg(""), PtArg(GivenPoint)}

RECURSIVE SeqsUpTo(_, _)
SeqsUpTo(S, n) ==
    IF n = 0 THEN {<<>>}
    ELSE LET shorter == SeqsUpTo(S, n - 1)
         IN  shorter \cup {Append(q, x) : q \in shorter, x \in S}

ArgLists == SeqsUpTo(ArgTokens, MaxArgs)

\* MArgList::asString(i): the string at (1-based) index i, "" when the index
\* is out of range or the element is not a string.
AsString(args, i) ==
    IF i <= Len(args) /\ args[i].k = "s" THEN args[i].s ELSE ""

\* MArgList::asPoint(i, 3, &status): the point at index i and whether it
\* could be read.
AsPoint(args, i) ==
    IF i <= Len(args) /\ args[i].k = "p"
    THEN [ok |-> TRUE, p |-> args[i].p]
    ELSE [ok |-> FALSE, p |-> Origin]

\* ------------------------------------------------------------------------
\* State
\* ------------------------------------------------------------------------
VARIABLES
    nodeTypes,      \* host registry: registered node type names
    commands,       \* host registry: registered command names
    hostCalls,      \* registry calls made by the last (un)initializePlugin
    pluginStatus,   \* status returned by the last (un)initializePlugin
    scene,          \* set of scene nodes
    created,        \* number of node creations so far
    cmd,            \* the xhandle command object
    phase,          \* where the command object is in its life
    call,           \* the last command entry point called: the arguments the
                    \* command was run with, its status and its host calls
    result,         \* MPxCommand::setResult value
    plugs,          \* plug values of the xhandleShape node being shown
    attrs,          \* xhandleShape's static members (internal attributes)
    drawIn,         \* arguments of the last xhandleShape::draw call
    gl,             \* calls the last draw made on the GL function table / view
    build,          \* the source file of the node the plugin was built from
    computeCall     \* the last xhandleShape::compute call and what it did

cmdVars == <<scene, created, cmd, phase, call, result>>
regVars == <<nodeTypes, commands, hostCalls, pluginStatus>>
drawVars == <<plugs, attrs, drawIn, gl, build, computeCall>>
vars == <<nodeTypes, commands, hostCalls, pluginStatus,
          scene, created, cmd, phase, call, result, plugs, attrs, drawIn, gl,
          build, computeCall>>

\* ------------------------------------------------------------------------
\* Plugin registration
\* ------------------------------------------------------------------------

\* MFnPlugin::registerNode / registerCommand: succeeds when the host accepts
\* the call and the name is not registered yet.
RegisterStatus(name, registered, hostOk) ==
    IF hostOk /\ name \notin registered THEN kSuccess ELSE kFailure

\* MFnPlugin::deregisterNode / deregisterCommand.
DeregisterStatus(name, registered, hostOk) ==
    IF hostOk /\ name \in registered THEN kSuccess ELSE kFailure

initializePluginMutSkipReturn(okNode, okCmd) ==
    LET st1 == RegisterStatus(NodeTypeName, nodeTypes, okNode)
        st2 == RegisterStatus(CommandName, commands, okCmd)
    IN  /\ nodeTypes' = IF st1 = kSuccess THEN nodeTypes \cup {NodeTypeName}
                        ELSE nodeTypes
        /\ commands' = IF st2 = kSuccess THEN commands \cup {CommandName}
                       ELSE commands
        /\ hostCalls' = << <<"registerNode", NodeTypeName, st1>>,
                           <<"registerCommand", CommandName, st2>> >>
        /\ pluginStatus' = [fn |-> "initializePlugin", status |-> st2]

initializePlugin(okNode, okCmd) ==
    LET st1 == RegisterStatus(NodeTypeName, nodeTypes, okNode)
        st2 == RegisterStatus(CommandName, commands, okCmd)
    IN  IF st1 # kSuccess
        THEN /\ hostCalls' = << <<"registerNode", NodeTypeName, st1>> >>
             /\ pluginStatus' = [fn |-> "initializePlugin", status |-> st1]
             /\ UNCHANGED <<nodeTypes, commands>>
        ELSE /\ nodeTypes' = nodeTypes \cup {NodeTypeName}
             /\ hostCalls' = << <<"registerNode", NodeTypeName, st1>>,
                                <<"registerCommand", CommandName, st2>> >>
             /\ commands' = IF st2 = kSuccess
                            THEN commands \cup {CommandName} ELSE commands
             /\ pluginStatus' = [fn |-> "initializePlugin", status |-> st2]

uninitializePluginMutKeepCommand(okNode, okCmd) ==
    LET st1 == DeregisterStatus(NodeTypeName, nodeTypes, okNode)
    IN  IF st1 # kSuccess
        THEN /\ hostCalls' = << <<"deregisterNode", NodeTypeName, st1>> >>
             /\ pluginStatus' = [fn |-> "uninitializePlugin", status |-> st1]
             /\ UNCHANGED <<nodeTypes, commands>>
        ELSE /\ nodeTypes' = nodeTypes \ {NodeTypeName}
             /\ hostCalls' = << <<"deregisterNode", NodeTypeName, st1>> >>
             /\ commands' = commands
             /\ pluginStatus' = [fn |-> "uninitializePlugin", status |-> st1]

uninitializePlugin(okNode, okCmd) ==
    LET st1 == DeregisterStatus(NodeTypeName, nodeTypes, okNode)
        st2 == DeregisterStatus(CommandName, commands, okCmd)
    IN  IF st1 # kSuccess
        THEN /\ hostCalls' = << <<"deregisterNode", NodeTypeName, st1>> >>
             /\ pluginStatus' = [fn |-> "uninitializePlugin", status |-> st1]
             /\ UNCHANGED <<nodeTypes, commands>>
        ELSE /\ nodeTypes' = nodeTypes \ {NodeTypeName}
             /\ hostCalls' = << <<"deregisterNode", NodeTypeName, st1>>,
                                <<"deregisterCommand", CommandName, st2>> >>
             /\ commands' = IF st2 = kSuccess
                            THEN commands \ {CommandName} ELSE commands
             /\ pluginStatus' = [fn |-> "uninitializePlugin", status |-> st2]

\* ------------------------------------------------------------------------
\* Scene (host DAG)
\* ------------------------------------------------------------------------
NodeIds(sc) == {n.id : n \in sc}
NodeNames(sc) == {n.name : n \in sc}

\* The host's unique name: base followed by the first free number.
HostName(base, taken) ==
    LET k == CHOOSE j \in 1..(Cardinality(taken) + 1) :
                 /\ (base \o ToString(j)) \notin taken
                 /\ \A i \in 1..(j - 1) : (base \o ToString(i)) \in taken
    IN  base \o ToString(k)

\* MFnDependencyNode::setName: the name asked for, made unique by the host.
RenamedTo(name, taken) ==
    IF name \notin taken THEN name ELSE HostName(name, taken)

\* MFnDependencyNode::create("xhandleShape"): a new shape under a new parent
\* transform, both with host default names and default local position.
TransformId(k) == 2 * k + 1
ShapeId(k) == 2 * k + 2

NewTransform(sc, k) ==
    [id |-> TransformId(k), type |-> "transform", parent |-> NullObj,
     name |-> HostName("transform", NodeNames(sc)),
     localPosition |-> Origin]

NewShape(sc, k) ==
    [id |-> ShapeId(k), type |-> NodeTypeName, parent |-> TransformId(k),
     name |-> HostName(NodeTypeName,
                       NodeNames(sc) \cup {NewTransform(sc, k).name}),
     localPosition |-> Origin]

\* MGlobal::deleteNode: removes the node and the nodes parented under it.
DeleteNodeStatus(sc, obj) ==
    IF obj \in NodeIds(sc) THEN kSuccess ELSE kFailure

DeleteNode(sc, obj) ==
    {n \in sc : n.id # obj /\ n.parent # obj}

\* ------------------------------------------------------------------------
\* The xhandle command
\* ------------------------------------------------------------------------
NameFlags == {"-name", "-n"}
PositionFlags == {"-position", "-p"}

\* xhandle::xhandle(): the MString, MPoint and MObject members are default
\* constructed; the two bool members are left uninitialised (initialised is
\* FALSE until doIt assigns them, and a read before that is indeterminate).
NewCommand ==
    [xhandleName |-> "", position |-> Origin, nodeCreated |-> FALSE,
     positionSpecified |-> FALSE, initialised |-> FALSE,
     xhandleNode |-> NullObj]

\* The values a read of the bool members of c can give.
ReadBools(c) ==
    IF c.initialised THEN {c}
    ELSE {[c EXCEPT !.nodeCreated = b1, !.positionSpecified = b2] :
              b1 \in BOOLEAN, b2 \in BOOLEAN}

NoCall ==
    [op |-> "none", args |-> <<>>, status |-> kSuccess, before |-> {},
     prevOp |-> "none", prevStatus |-> kSuccess, prevBefore |-> {},
     writes |-> <<>>, renames |-> <<>>]

\* redoIt that sets the local position whether or not one was given.
redoItMutWriteAlways(c, sc, k) ==
    LET t == NewTransform(sc, k)
        s == NewShape(sc, k)
        others == NodeNames(sc) \cup {s.name}
        newName == IF c.xhandleName # ""
                   THEN RenamedTo(c.xhandleName, others)
                   ELSE t.name
    IN  [cmd |-> [c EXCEPT !.nodeCreated = TRUE,
                           !.xhandleNode = t.id,
                           !.xhandleName = newName],
         scene |-> sc \cup {[t EXCEPT !.name = newName],
                            [s EXCEPT !.localPosition = c.position]},
         result |-> newName,
         writes |-> << <<"localPositionX", c.position[1]>>,
                       <<"localPositionY", c.position[2]>>,
                       <<"localPositionZ", c.position[3]>> >>,
         renames |-> IF c.xhandleName # "" THEN <<c.xhandleName>> ELSE <<>>,
         status |-> kSuccess]

\* redoIt that does not read back the name the host gave.
redoItMutNoReadBack(c, sc, k) ==
    LET t == NewTransform(sc, k)
        s == NewShape(sc, k)
        others == NodeNames(sc) \cup {s.name}
        newName == IF c.xhandleName # ""
                   THEN RenamedTo(c.xhandleName, others)
                   ELSE t.name
        ws == IF c.positionSpecified
              THEN << <<"localPositionX", c.position[1]>>,
                      <<"localPositionY", c.position[2]>>,
                      <<"localPositionZ", c.position[3]>> >>
              ELSE <<>>
        s2 == IF c.positionSpecified
              THEN [s EXCEPT !.localPosition = c.position] ELSE s
    IN  [cmd |-> [c EXCEPT !.nodeCreated = TRUE,
                           !.xhandleNode = t.id],
         scene |-> sc \cup {[t EXCEPT !.name = newName], s2},
         result |-> c.xhandleName,
         writes |-> ws,
         renames |-> IF c.xhandleName # "" THEN <<c.xhandleName>> ELSE <<>>,
         status |-> kSuccess]

\* xhandle::redoIt on command object c, in scene sc, as the k-th creation.
\* writes are the plug values it sets, renames the setName calls it makes.
redoIt(c, sc, k) ==
    LET t == NewTransform(sc, k)
        s == NewShape(sc, k)
        others == NodeNames(sc) \cup {s.name}
        newName == IF c.xhandleName # ""
                   THEN RenamedTo(c.xhandleName, others)
                   ELSE t.name
        ws == IF c.positionSpecified
              THEN << <<"localPositionX", c.position[1]>>,
                      <<"localPositionY", c.position[2]>>,
                      <<"localPositionZ", c.position[3]>> >>
              ELSE <<>>
        s2 == IF c.positionSpecified
              THEN [s EXCEPT !.localPosition = c.position] ELSE s
    IN  [cmd |-> [c EXCEPT !.nodeCreated = TRUE,
                           !.xhandleNode = t.id,
                           !.xhandleName = newName],
         scene |-> sc \cup {[t EXCEPT !.name = newName], s2},
         result |-> newName,
         writes |-> ws,
         renames |-> IF c.xhandleName # "" THEN <<c.xhandleName>> ELSE <<>>,
         status |-> kSuccess]

\* The argument loop of xhandle::doIt from (1-based) index i on.  parsed is
\* TRUE when the loop ran off the end of the list, FALSE when it returned
\* MS::kFailure.
RECURSIVE ParseArgs(_, _, _)
ParseArgs(c, args, i) ==
    IF i > Len(args) THEN [cmd |-> c, parsed |-> TRUE]
    ELSE IF AsString(args, i) \in NameFlags
    THEN ParseArgs([c EXCEPT !.xhandleName = AsString(args, i + 1)],
                   args, i + 2)
    ELSE IF AsString(args, i) \in PositionFlags
    THEN LET r == AsPoint(args, i + 1)
             c2 == [c EXCEPT !.positionSpecified = TRUE, !.position = r.p]
         IN  IF r.ok THEN ParseArgs(c2, args, i + 2)
             ELSE [cmd |-> c2, parsed |-> FALSE]
    ELSE [cmd |-> c, parsed |-> FALSE]

\* xhandle::doIt.
doItMutCreateOnFailure(c, args, sc, k) ==
    LET c0 == [c EXCEPT !.positionSpecified = FALSE, !.nodeCreated = FALSE,
                        !.initialised = TRUE]
        p == ParseArgs(c0, args, 1)
        r == redoIt(p.cmd, sc, k)
    IN  IF p.parsed THEN r ELSE [r EXCEPT !.status = kFailure]

doItMutFailOnPosition(c, args, sc, k) ==
    LET c0 == [c EXCEPT !.positionSpecified = FALSE, !.nodeCreated = FALSE,
                        !.initialised = TRUE]
        p == ParseArgs(c0, args, 1)
    IN  IF p.parsed /\ ~p.cmd.positionSpecified THEN redoIt(p.cmd, sc, k)
        ELSE [cmd |-> p.cmd, scene |-> sc, result |-> "", writes |-> <<>>,
              renames |-> <<>>, status |-> kFailure]

doIt(c, args, sc, k) ==
    LET c0 == [c EXCEPT !.positionSpecified = FALSE, !.nodeCreated = FALSE,
                        !.initialised = TRUE]
        p == ParseArgs(c0, args, 1)
    IN  IF p.parsed THEN redoIt(p.cmd, sc, k)
        ELSE [cmd |-> p.cmd, scene |-> sc, result |-> "", writes |-> <<>>,
              renames |-> <<>>, status |-> kFailure]

\* xhandle::undoIt.
undoItMutKeepNode(c, sc) ==
    [scene |-> sc,
     status |-> IF c.nodeCreated THEN DeleteNodeStatus(sc, c.xhandleNode)
                ELSE kInvalidParameter]

undoIt(c, sc) ==
    IF c.nodeCreated
    THEN [scene |-> IF DeleteNodeStatus(sc, c.xhandleNode) = kSuccess
                    THEN DeleteNode(sc, c.xhandleNode) ELSE sc,
          status |-> DeleteNodeStatus(sc, c.xhandleNode)]
    ELSE [scene |-> sc, status |-> kInvalidParameter]

\* ------------------------------------------------------------------------
\* The xhandleShape locator: attributes
\* ------------------------------------------------------------------------
\* Floating point values are kept in thousandths (1.0 is 1000).
Mul(a, b) ==
    IF a * b >= 0 THEN (a * b) \div 1000 ELSE -((-(a * b)) \div 1000)

Scaled(v, f) == [i \in 1..Len(v) |-> Mul(v[i], f)]

\* Attribute ranges set in xhandleShape::initialize.
DrawStyleMin == 1
DrawStyleMax == 8
ThicknessMin == 1
ThicknessDefault == 5
ThicknessMax == 10

DrawStyles == DrawStyleMin..DrawStyleMax
Thicknesses == {ThicknessMin, ThicknessDefault, ThicknessMax}
OffOn == {0, 1}                 \* enum fields "Off" = 0, "On" = 1

\* Values of the locator's own plugs (localPosition, localScale, addScale),
\* in thousandths.
LocalInputs ==
    {[localPosition |-> Origin,
      localScale |-> <<1000, 1000, 1000>>, addScale |-> <<1000, 1000, 1000>>],
     [localPosition |-> Scaled(GivenPoint, 1000000),
      localScale |-> <<2000, 3000, 1000>>, addScale |-> <<3000, 1000, 500>>]}

\* The plug values the host hands to setInternalAttrs.
PlugValues ==
    [local : LocalInputs, drawOrtho : OffOn, drawStyle : DrawStyles,
     wireframeThickness : Thicknesses, transformScaling : OffOn,
     blendColour : OffOn, drawAxisColour : OffOn,
     overrideEnabled : BOOLEAN]

\* Attribute defaults set in xhandleShape::initialize (and the host's
\* defaults for the locator's own plugs).
DefaultPlugs ==
    [local |-> [localPosition |-> Origin,
                localScale |-> <<1000, 1000, 1000>>,
                addScale |-> <<1000, 1000, 1000>>],
     drawOrtho |-> 1, drawStyle |-> 1, wireframeThickness |-> ThicknessDefault,
     transformScaling |-> 1, blendColour |-> 0, drawAxisColour |-> 0,
     overrideEnabled |-> FALSE]

\* M3dView::DisplayStyle and (some of) M3dView::DisplayStatus.
DisplayStyles ==
    {"kBoundingBox", "kFlatShaded", "kGouraudShaded", "kWireFrame", "kPoints"}
DisplayStatuses == {"kActive", "kLead", "kDormant"}

\* Host geometry case g: the inclusive (world) matrix of the DAG path, the
\* viewport camera and the UI unit.  Case 0 is the identity.
GeomCases == 0..MaxGeom
WorldScale(g) == <<1000 * (1 + g), 1000 * (1 + 2 * g), 1000 * (1 + 3 * g)>>
WorldInvScale(g) ==
    <<1000 \div (1 + g), 1000 \div (1 + 2 * g), 1000 \div (1 + 3 * g)>>
WorldTranslation(g) == <<1000 * g, -1000 * g, 2000 * g>>
CameraTheta(g) == 785 * g                     \* radians, in thousandths
CameraAxis(g) == IF g = 0 THEN <<0, 0, 1000>> ELSE <<0, 1000, 0>>
UnitMultiplier(g) == IF g % 2 = 0 THEN 1000 ELSE 10000  \* cm, dm

\* Static storage is zero-initialised.
ZeroAttrs ==
    [l_position |-> <<0, 0, 0>>, add_scale |-> <<0, 0, 0>>,
     l_scale |-> <<0, 0, 0>>, dDrawOrtho |-> 0, dDrawStyle |-> 0,
     dThickness |-> 0, dTransformScaling |-> 0, dBlendHColour |-> 0,
     dDrawAxColour |-> 0, uMult |-> 0, colorOverride |-> FALSE, colorId |-> 0]

NoDraw == [style |-> "none", status |-> "none", g |-> 0, drawn |-> FALSE]

\* xhandleShape::RAD_TO_DEG, on thousandths.
RAD_TO_DEG(rad) == (rad * 572958) \div 10000

\* xhandleShape::setInternalAttrs: copy the plug values to the statics.
setInternalAttrs(pv, g) ==
    [l_position |-> pv.local.localPosition,
     add_scale |-> pv.local.addScale,
     l_scale |-> pv.local.localScale,
     dDrawOrtho |-> pv.drawOrtho,
     dDrawStyle |-> pv.drawStyle,
     dThickness |-> pv.wireframeThickness,
     dTransformScaling |-> pv.transformScaling,
     dBlendHColour |-> pv.blendColour,
     dDrawAxColour |-> pv.drawAxisColour,
     uMult |-> UnitMultiplier(g),
     colorOverride |-> pv.overrideEnabled,
     colorId |-> 0]

\* The attributes xhandleShape::initialize adds to the node, and the
\* locator's own, by the field of the plug values that holds them.
ComputePlugs ==
    {"drawStyle", "drawOrtho", "wireframeThickness", "transformScaling",
     "blendColour", "drawAxisColour", "addScale", "localPosition",
     "localScale"}

NoCompute ==
    [plug |-> "none", status |-> kSuccess, before |-> DefaultPlugs,
     reads |-> {}, done |-> FALSE]

\* compute that takes drawStyle for an output of its own.
computeMutOwnsDrawStyle(plug, block) ==
    IF plug = "drawStyle"
    THEN [status |-> kSuccess,
          block |-> [block EXCEPT !.drawStyle = DrawStyleMin],
          reads |-> {"drawStyle"}]
    ELSE [status |-> kUnknownParameter, block |-> block, reads |-> {}]

\* xhandleShape::compute: both parameters are unnamed and unused.  block is
\* the data block after the call, reads the plugs read from it.
compute(plug, block) ==
    [status |-> kUnknownParameter, block |-> block, reads |-> {}]

\* ------------------------------------------------------------------------
\* GL calls
\* ------------------------------------------------------------------------
\* One call: function name, enum / symbolic arguments, numeric arguments.
G(fn, e, a) == [fn |-> fn, e |-> e, a |-> a]

handle_low ==
    << <<410, 1000>>, <<1000, 410>>, <<1000, -410>>, <<410, -1000>>,
       <<-410, -1000>>, <<-1000, -410>>, <<-1000, 410>>, <<-410, 1000>> >>

handle_high ==
    << <<150, 0>>, <<139, 57>>, <<106, 106>>, <<58, 138>>,
       <<1, 150>>, <<-57, 139>>, <<-105, 107>>, <<-138, 58>>,
       <<-150, 1>>, <<-139, -56>>, <<-107, -105>>, <<-59, -138>>,
       <<-2, -150>>, <<55, -139>>, <<104, -108>>, <<138, -60>> >>

TriangleVerts(u) == << <<0, u, 0>>, <<u, -u, 0>>, <<-u, -u, 0>> >>

SquareVerts(u) == << <<-u, u, 0>>, <<u, u, 0>>, <<u, -u, 0>>, <<-u, -u, 0>> >>

\* handle_low[i] * uMult
OctagonVerts(u) ==
    [i \in 1..8 |-> <<Mul(handle_low[i][1], u), Mul(handle_low[i][2], u), 0>>]

\* handle_low[i] * f * uMult
OctagonVertsBy(f, u) ==
    [i \in 1..8 |-> <<Mul(Mul(handle_low[i][1], f), u),
                      Mul(Mul(handle_low[i][2], f), u), 0>>]

\* handle_high[i] * f * uMult
CircleVertsBy(f, u) ==
    [i \in 1..16 |-> <<Mul(Mul(handle_high[i][1], f), u),
                       Mul(Mul(handle_high[i][2], f), u), 0>>]

\* A primitive whose glEnd is missing.
PrimitiveMutNoEnd(mode, verts) ==
    << G("glBegin", <<mode>>, <<>>) >>
    \o [i \in 1..Len(verts) |-> G("glVertex3f", <<>>, verts[i])]

\* glBegin(mode); glVertex3f(v) for each vertex; glEnd()
Primitive(mode, verts) ==
    << G("glBegin", <<mode>>, <<>>) >>
    \o [i \in 1..Len(verts) |-> G("glVertex3f", <<>>, verts[i])]
    \o << G("glEnd", <<>>, <<>>) >>

RotateToXZ == G("glRotatef", <<>>, <<-90000, 1000, 0, 0>>)

PointLineSetup(width) ==
    << G("glEnable", <<"GL_POINT_SMOOTH">>, <<>>),
       G("glLineWidth", <<>>, <<width>>),
       G("glPointSize", <<>>, <<width>>) >>

PolygonModeLine == G("glPolygonMode", <<"GL_FRONT_AND_BACK", "GL_LINE">>, <<>>)

AxisColourMutRedOnly(a, selection, rgb) ==
    IF a.dDrawAxColour = 1 /\ a.dDrawOrtho = 0 /\ selection = FALSE
    THEN << G("glColor3f", <<>>, <<1000, 0, 0>>) >> ELSE <<>>

AxisColour(a, selection, rgb) ==
    IF a.dDrawAxColour = 1 /\ a.dDrawOrtho = 0 /\ selection = FALSE
    THEN << G("glColor3f", <<>>, rgb) >> ELSE <<>>

\* xhandleShape::drawShapes, one operator per case of the switch.
drawShapes1(a) ==
    << RotateToXZ >> \o PointLineSetup(a.dThickness) \o << PolygonModeLine >>
    \o Primitive("GL_POINTS", TriangleVerts(a.uMult))
    \o Primitive("GL_LINE_LOOP", TriangleVerts(a.uMult))

drawShapes2(a) ==
    << RotateToXZ, G("glRotatef", <<>>, <<180000, 0, 0, 1000>>) >>
    \o PointLineSetup(a.dThickness)
    \o Primitive("GL_POINTS", TriangleVerts(a.uMult))
    \o Primitive("GL_LINE_LOOP", TriangleVerts(a.uMult))

drawShapes3(a) ==
    << RotateToXZ >> \o PointLineSetup(a.dThickness) \o << PolygonModeLine >>
    \o Primitive("GL_POINTS", SquareVerts(a.uMult))
    \o Primitive("GL_LINE_LOOP", SquareVerts(a.uMult))

drawShapes4(a) ==
    << RotateToXZ >> \o PointLineSetup(a.dThickness) \o << PolygonModeLine >>
    \o Primitive("GL_POINTS", OctagonVerts(a.uMult))
    \o Primitive("GL_LINE_LOOP", OctagonVerts(a.uMult))

drawShapes5(a) ==
    << RotateToXZ >> \o PointLineSetup(a.dThickness) \o << PolygonModeLine >>
    \o Primitive("GL_POINTS", CircleVertsBy(6660, a.uMult))
    \o Primitive("GL_LINE_LOOP", CircleVertsBy(6660, a.uMult))

drawShapes6(a) ==
    << RotateToXZ >>
    \o Primitive("GL_LINE_LOOP", SquareVerts(a.uMult))
    \o Primitive("GL_POINTS", SquareVerts(a.uMult))
    \o PointLineSetup(a.dThickness) \o << PolygonModeLine >>
    \o Primitive("GL_POINTS", OctagonVertsBy(525, a.uMult))
    \o Primitive("GL_LINE_LOOP", OctagonVertsBy(525, a.uMult))

drawShapes7(a) ==
    << RotateToXZ >>
    \o Primitive("GL_LINE_LOOP", SquareVerts(a.uMult))
    \o Primitive("GL_POINTS", SquareVerts(a.uMult))
    \o PointLineSetup(a.dThickness) \o << PolygonModeLine >>
    \o Primitive("GL_POINTS", CircleVertsBy(3500, a.uMult))
    \o Primitive("GL_LINE_LOOP", CircleVertsBy(3500, a.uMult))

drawShapes8(a, selection) ==
    << RotateToXZ, G("glLineWidth", <<>>, <<a.dDrawOrtho>>) >>
    \o AxisColour(a, selection, <<1000, 0, 0>>)
    \o Primitive("GL_LINES", << <<a.uMult, 0, 0>>, <<-a.uMult, 0, 0>> >>)
    \o AxisColour(a, selection, <<0, 0, 1000>>)
    \o Primitive("GL_LINES", << <<0, a.uMult, 0>>, <<0, -a.uMult, 0>> >>)
    \o (IF a.dDrawOrtho = 0
        THEN AxisColour(a, selection, <<0, 1000, 0>>) ELSE <<>>)
    \o Primitive("GL_LINES", << <<0, 0, a.uMult>>, <<0, 0, -a.uMult>> >>)

drawShapesMutFallThrough(a, selection) ==
    IF a.dDrawStyle = 3 THEN drawShapes3(a) \o drawShapes4(a)
    ELSE IF a.dDrawStyle = 1 THEN drawShapes1(a)
    ELSE IF a.dDrawStyle = 2 THEN drawShapes2(a)
    ELSE IF a.dDrawStyle = 4 THEN drawShapes4(a)
    ELSE IF a.dDrawStyle = 5 THEN drawShapes5(a)
    ELSE IF a.dDrawStyle = 6 THEN drawShapes6(a)
    ELSE IF a.dDrawStyle = 7 THEN drawShapes7(a)
    ELSE IF a.dDrawStyle = 8 THEN drawShapes8(a, selection)
    ELSE <<>>

drawShapes(a, selection) ==
    CASE a.dDrawStyle = 1 -> drawShapes1(a)
      [] a.dDrawStyle = 2 -> drawShapes2(a)
      [] a.dDrawStyle = 3 -> drawShapes3(a)
      [] a.dDrawStyle = 4 -> drawShapes4(a)
      [] a.dDrawStyle = 5 -> drawShapes5(a)
      [] a.dDrawStyle = 6 -> drawShapes6(a)
      [] a.dDrawStyle = 7 -> drawShapes7(a)
      [] a.dDrawStyle = 8 -> drawShapes8(a, selection)
      [] OTHER -> <<>>

\* The node's source exists in three files: xhandleNode.cpp (built into the
\* xhandleNodePlugin), its copy xhandleShapeNode.cpp, whose drawShapes is the
\* same text, and the earlier mrt_xhandleShapePlu.h.
MainBuild == "xhandleNode.cpp"
Builds == {MainBuild, "xhandleShapeNode.cpp", "mrt_xhandleShapePlu.h"}

\* The axis colour guard of mrt_xhandleShapePlu.h: the two plug values are
\* read by drawShapes itself.
AxisColourPlu(pv, selection, rgb) ==
    IF pv.drawAxisColour = 1 /\ pv.drawOrtho = 0 /\ selection = FALSE
    THEN << G("glColor3f", <<>>, rgb) >> ELSE <<>>

\* Case 8 of drawShapes in mrt_xhandleShapePlu.h: the line width is w_size
\* and the Z axis line is inside the drawOrtho != 1 block.
drawShapesPlu8(pv, unit_multiplier, w_size, drawOrtho, selection) ==
    << RotateToXZ, G("glLineWidth", <<>>, <<w_size>>) >>
    \o AxisColourPlu(pv, selection, <<1000, 0, 0>>)
    \o Primitive("GL_LINES", << <<unit_multiplier, 0, 0>>,
                                <<-unit_multiplier, 0, 0>> >>)
    \o AxisColourPlu(pv, selection, <<0, 0, 1000>>)
    \o Primitive("GL_LINES", << <<0, unit_multiplier, 0>>,
                                <<0, -unit_multiplier, 0>> >>)
    \o (IF drawOrtho # 1
        THEN AxisColourPlu(pv, selection, <<0, 1000, 0>>)
             \o Primitive("GL_LINES", << <<0, 0, unit_multiplier>>,
                                         <<0, 0, -unit_multiplier>> >>)
        ELSE <<>>)

\* drawShapes of mrt_xhandleShapePlu.h.  Cases 1 to 7 are the text of
\* xhandleNode.cpp with w_size for dThickness and unit_multiplier for uMult.
drawShapesPlu(pv, enumType, unit_multiplier, w_size, drawOrtho, selection) ==
    LET a == [dThickness |-> w_size, uMult |-> unit_multiplier]
    IN  CASE enumType = 1 -> drawShapes1(a)
          [] enumType = 2 -> drawShapes2(a)
          [] enumType = 3 -> drawShapes3(a)
          [] enumType = 4 -> drawShapes4(a)
          [] enumType = 5 -> drawShapes5(a)
          [] enumType = 6 -> drawShapes6(a)
          [] enumType = 7 -> drawShapes7(a)
          [] enumType = 8 -> drawShapesPlu8(pv, unit_multiplier, w_size,
                                            drawOrtho, selection)
          [] OTHER -> <<>>

\* ------------------------------------------------------------------------
\* xhandleShape::draw
\* ------------------------------------------------------------------------
LocalScaleCall(a) ==
    G("glScaled", <<"l_scale*add_scale">>,
      <<Mul(a.l_scale[1], a.add_scale[1]), Mul(a.l_scale[2], a.add_scale[2]),
        Mul(a.l_scale[3], a.add_scale[3])>>)

LocalTranslateCall(a) == G("glTranslated", <<"l_position">>, a.l_position)

\* The model-view calls of the "draw ortho" branch.
drawOrthoBranchMutScaleLate(a, g) ==
    << G("glMultMatrixd", <<"pathInvMatrix">>, <<g>>) >>
    \o << LocalTranslateCall(a) >>
    \o (IF a.dTransformScaling # 0
        THEN << G("glScaled", <<"scale">>, WorldScale(g)) >> ELSE <<>>)
    \o << G("glTranslated", <<"trans_vec">>, WorldTranslation(g)),
          G("glRotated", <<"camRotation">>,
            <<RAD_TO_DEG(CameraTheta(g))>> \o CameraAxis(g)),
          LocalScaleCall(a),
          G("glRotatef", <<>>, <<90000, 1000, 0, 0>>) >>

drawOrthoBranch(a, g) ==
    << G("glMultMatrixd", <<"pathInvMatrix">>, <<g>>) >>
    \o (IF a.dTransformScaling # 0
        THEN << G("glScaled", <<"scale">>, WorldScale(g)) >> ELSE <<>>)
    \o << LocalTranslateCall(a),
          G("glTranslated", <<"trans_vec">>, WorldTranslation(g)),
          G("glRotated", <<"camRotation">>,
            <<RAD_TO_DEG(CameraTheta(g))>> \o CameraAxis(g)),
          LocalScaleCall(a),
          G("glRotatef", <<>>, <<90000, 1000, 0, 0>>) >>

\* The model-view calls when "draw ortho" is disabled.
drawPlainBranchMutScaleWhenOn(a, g) ==
    (IF a.dTransformScaling # 0
     THEN << G("glScaled", <<"inv_scale">>, WorldInvScale(g)) >> ELSE <<>>)
    \o << LocalTranslateCall(a), LocalScaleCall(a) >>

drawPlainBranch(a, g) ==
    (IF a.dTransformScaling = 0
     THEN << G("glScaled", <<"inv_scale">>, WorldInvScale(g)) >> ELSE <<>>)
    \o << LocalTranslateCall(a), LocalScaleCall(a) >>

\* view.setDrawColor by display status.
drawColour(a, status) ==
    (IF status = "kLead"
     THEN << G("setDrawColor", <<"kActiveColors">>, <<18>>) >> ELSE <<>>)
    \o (IF status = "kActive"
        THEN << G("setDrawColor", <<"kActiveColors">>, <<15>>) >> ELSE <<>>)
    \o (IF status = "kDormant"
        THEN << G("setDrawColor", <<"color(kDormant)", "kDormantColors">>,
                  <<>>) >>
             \o (IF a.colorOverride = TRUE
                 THEN << G("setDrawColor",
                           <<"color(kDormant)", "kDormantColors">>, <<>>) >>
                 ELSE <<>>)
        ELSE <<>>)

\* drawBlend with the glDisable left unguarded.
drawBlendMutAlwaysDisable(a) ==
    << G("glDisable", <<"GL_BLEND">>, <<>>) >>
    \o (IF a.dBlendHColour = 1
        THEN << G("glEnable", <<"GL_BLEND">>, <<>>),
                G("glBlendFunc", <<"GL_DST_COLOR", "GL_SRC_COLOR">>, <<>>) >>
        ELSE <<>>)

\* The blend colour state.
drawBlend(a) ==
    (IF a.dBlendHColour = 0
     THEN << G("glDisable", <<"GL_BLEND">>, <<>>) >> ELSE <<>>)
    \o (IF a.dBlendHColour = 1
        THEN << G("glEnable", <<"GL_BLEND">>, <<>>),
                G("glBlendFunc", <<"GL_DST_COLOR", "GL_SRC_COLOR">>, <<>>) >>
        ELSE <<>>)

\* The drawShapes calls by display style.
drawByStyle(a, style, status) ==
    (IF style \in {"kWireFrame", "kPoints"}
     THEN << G("glEnable", <<"GL_LINE_SMOOTH">>, <<>>) >>
          \o drawShapes(a, status = "kActive")
     ELSE <<>>)
    \o (IF style \in {"kFlatShaded", "kGouraudShaded"}
        THEN << G("glClearDepth", <<>>, <<0>>),
                G("glDepthFunc", <<"GL_ALWAYS">>, <<>>),
                G("glEnable", <<"GL_LINE_SMOOTH">>, <<>>) >>
             \o drawShapes(a, status = "kActive")
        ELSE <<>>)

\* xhandleShape::draw with the statics a already updated.
draw(a, style, status, g) ==
    << G("glPushAttrib", <<"GL_ALL_ATTRIB_BITS">>, <<>>),
       G("glMatrixMode", <<"GL_MODELVIEW">>, <<>>),
       G("beginGL", <<>>, <<>>) >>
    \o (IF a.dDrawOrtho # 0 THEN drawOrthoBranch(a, g)
        ELSE drawPlainBranch(a, g))
    \o drawColour(a, status)
    \o drawBlend(a)
    \o drawByStyle(a, style, status)
    \o << G("endGL", <<>>, <<>>), G("glPopAttrib", <<>>, <<>>) >>

\* ------------------------------------------------------------------------
\* Actions
\* ------------------------------------------------------------------------
Init ==
    /\ nodeTypes = {}
    /\ commands = {}
    /\ hostCalls = <<>>
    /\ pluginStatus = [fn |-> "none", status |-> kSuccess]
    /\ scene = {}
    /\ created = 0
    /\ cmd = NewCommand
    /\ phase = "none"
    /\ call = NoCall
    /\ result = ""
    /\ plugs = DefaultPlugs
    /\ attrs = ZeroAttrs
    /\ drawIn = NoDraw
    /\ gl = <<>>
    /\ build = MainBuild
    /\ computeCall = NoCompute

\* The host loads the plugin; loading a plugin that is already loaded is a
\* no-op in the host and does not reach initializePlugin.
InitializePlugin ==
    /\ ~(NodeTypeName \in nodeTypes /\ CommandName \in commands)
    /\ \E okNode \in BOOLEAN, okCmd \in BOOLEAN :
           initializePlugin(okNode, okCmd)
    /\ UNCHANGED cmdVars
    /\ UNCHANGED drawVars

\* The host unloads the plugin; it does so only while no node of the
\* plugin's type is in the scene, and drops the undo queue first.
UninitializePlugin ==
    /\ \A n \in scene : n.type # NodeTypeName
    /\ \E okNode \in BOOLEAN, okCmd \in BOOLEAN :
           uninitializePlugin(okNode, okCmd)
    /\ phase' = "none"
    /\ call' = NoCall
    /\ UNCHANGED <<scene, created, cmd, result>>
    /\ UNCHANGED drawVars

\* The host dispatches the command: xhandle::creator makes a fresh command
\* object.  By then the host has consumed the status of the plugin entry
\* point it called last.
Creator ==
    /\ CommandName \in commands
    /\ phase # "new"
    /\ cmd' = NewCommand
    /\ phase' = "new"
    /\ call' = NoCall
    /\ hostCalls' = <<>>
    /\ pluginStatus' = [fn |-> "none", status |-> kSuccess]
    /\ UNCHANGED <<nodeTypes, commands>>
    /\ UNCHANGED <<scene, created, result>>
    /\ UNCHANGED drawVars

\* The host runs the command with an argument list.
DoIt ==
    /\ phase = "new"
    /\ NodeTypeName \in nodeTypes
    /\ created < MaxCreate
    /\ \E args \in ArgLists :
         LET r == doIt(cmd, args, scene, created)
         IN  /\ cmd' = r.cmd
             /\ scene' = r.scene
             /\ created' = IF r.scene # scene THEN created + 1 ELSE created
             /\ result' = IF r.status = kSuccess THEN r.result ELSE result
             /\ phase' = IF r.status = kSuccess THEN "done" ELSE "failed"
             /\ call' = [op |-> "doIt", args |-> args, status |-> r.status,
                         before |-> scene, prevOp |-> call.op,
                         prevStatus |-> call.status,
                         prevBefore |-> call.before,
                         writes |-> r.writes, renames |-> r.renames]
    /\ UNCHANGED regVars
    /\ UNCHANGED drawVars

\* The host undoes the command at the top of its undo queue.
UndoIt ==
    /\ phase = "done"
    /\ \E c \in ReadBools(cmd) :
       LET r == undoIt(c, scene)
       IN  /\ scene' = r.scene
           /\ call' = [op |-> "undoIt", args |-> call.args,
                       status |-> r.status,
                       before |-> scene, prevOp |-> call.op,
                       prevStatus |-> call.status,
                       prevBefore |-> call.before,
                       writes |-> <<>>, renames |-> <<>>]
    /\ phase' = "undone"
    /\ UNCHANGED <<created, cmd, result>>
    /\ UNCHANGED regVars
    /\ UNCHANGED drawVars

\* The host redoes the undone command.
RedoIt ==
    /\ phase = "undone"
    /\ NodeTypeName \in nodeTypes
    /\ created < MaxCreate
    /\ \E c \in ReadBools(cmd) :
       LET r == redoIt(c, scene, created)
       IN  /\ cmd' = r.cmd
           /\ scene' = r.scene
           /\ result' = r.result
           /\ call' = [op |-> "redoIt", args |-> call.args,
                       status |-> r.status,
                       before |-> scene, prevOp |-> call.op,
                       prevStatus |-> call.status,
                       prevBefore |-> call.before,
                       writes |-> r.writes, renames |-> r.renames]
    /\ created' = created + 1
    /\ phase' = "done"
    /\ UNCHANGED regVars
    /\ UNCHANGED drawVars

Next ==
    \/ InitializePlugin
    \/ UninitializePlugin
    \/ Creator
    \/ DoIt
    \/ UndoIt
    \/ RedoIt

Spec == Init /\ [][Next]_vars

\* A viewport refresh: the host has a node with some plug values, a display
\* style and status and a DAG path, and has not called draw yet.
InitDraw ==
    /\ nodeTypes = {NodeTypeName}
    /\ commands = {CommandName}
    /\ hostCalls = <<>>
    /\ pluginStatus = [fn |-> "none", status |-> kSuccess]
    /\ scene = {}
    /\ created = 0
    /\ cmd = NewCommand
    /\ phase = "none"
    /\ call = NoCall
    /\ result = ""
    /\ plugs \in PlugValues
    /\ attrs = ZeroAttrs
    /\ drawIn \in [style : DisplayStyles, status : DisplayStatuses,
                   g : GeomCases, drawn : {FALSE}]
    /\ gl = <<>>
    /\ build = MainBuild
    /\ computeCall = NoCompute

\* The host's viewport asks the locator to draw itself.
Draw ==
    /\ drawIn.drawn = FALSE
    /\ LET a == setInternalAttrs(plugs, drawIn.g)
       IN  /\ attrs' = a
           /\ gl' = draw(a, drawIn.style, drawIn.status, drawIn.g)
    /\ drawIn' = [drawIn EXCEPT !.drawn = TRUE]
    /\ UNCHANGED <<plugs, build, computeCall>>
    /\ UNCHANGED regVars
    /\ UNCHANGED cmdVars

NextDraw == Draw

SpecDraw == InitDraw /\ [][NextDraw]_vars

\* drawShapes on its own, for each of the three source files: draw has read
\* the plugs and is about to call drawShapes.
InitShapes ==
    /\ nodeTypes = {NodeTypeName}
    /\ commands = {CommandName}
    /\ hostCalls = <<>>
    /\ pluginStatus = [fn |-> "none", status |-> kSuccess]
    /\ scene = {}
    /\ created = 0
    /\ cmd = NewCommand
    /\ phase = "none"
    /\ call = NoCall
    /\ result = ""
    /\ plugs \in PlugValues
    /\ attrs = ZeroAttrs
    /\ drawIn \in [style : {"kWireFrame", "kFlatShaded"},
                   status : DisplayStatuses, g : GeomCases, drawn : {FALSE}]
    /\ gl = <<>>
    /\ build \in Builds
    /\ computeCall = NoCompute

\* draw's call of drawShapes.  xhandleNode.cpp and xhandleShapeNode.cpp pass
\* status == kActive and read the static members; mrt_xhandleShapePlu.h
\* passes the plug values and sel, which is false only for kDormant.
DrawShapes ==
    /\ drawIn.drawn = FALSE
    /\ IF build = "mrt_xhandleShapePlu.h"
       THEN /\ gl' = drawShapesPlu(plugs, plugs.drawStyle,
                                   UnitMultiplier(drawIn.g),
                                   plugs.wireframeThickness, plugs.drawOrtho,
                                   drawIn.status # "kDormant")
            /\ attrs' = attrs
       ELSE LET a == setInternalAttrs(plugs, drawIn.g)
            IN  /\ attrs' = a
                /\ gl' = drawShapes(a, drawIn.status = "kActive")
    /\ drawIn' = [drawIn EXCEPT !.drawn = TRUE]
    /\ UNCHANGED <<plugs, build, computeCall>>
    /\ UNCHANGED regVars
    /\ UNCHANGED cmdVars

NextShapes == DrawShapes

SpecShapes == InitShapes /\ [][NextShapes]_vars

\* The host asks the node to compute a plug from its data block.
InitCompute ==
    /\ nodeTypes = {NodeTypeName}
    /\ commands = {CommandName}
    /\ hostCalls = <<>>
    /\ pluginStatus = [fn |-> "none", status |-> kSuccess]
    /\ scene = {}
    /\ created = 0
    /\ cmd = NewCommand
    /\ phase = "none"
    /\ call = NoCall
    /\ result = ""
    /\ plugs \in PlugValues
    /\ attrs = ZeroAttrs
    /\ drawIn = NoDraw
    /\ gl = <<>>
    /\ build = MainBuild
    /\ computeCall \in [plug : ComputePlugs, status : {kSuccess},
                        before : {DefaultPlugs}, reads : {{}},
                        done : {FALSE}]

Compute ==
    /\ computeCall.done = FALSE
    /\ LET r == compute(computeCall.plug, plugs)
       IN  /\ plugs' = r.block
           /\ computeCall' = [plug |-> computeCall.plug, status |-> r.status,
                              before |-> plugs, reads |-> r.reads,
                              done |-> TRUE]
    /\ UNCHANGED <<attrs, drawIn, gl, build>>
    /\ UNCHANGED regVars
    /\ UNCHANGED cmdVars

NextCompute == Compute

SpecCompute == InitCompute /\ [][NextCompute]_vars

TypeOK ==
    /\ nodeTypes \subseteq {NodeTypeName}
    /\ commands \subseteq {CommandName}
    /\ phase \in {"none", "new", "done", "undone", "failed"}
    /\ created \in 0..MaxCreate

\* ------------------------------------------------------------------------
\* Argument lists as the command's documentation describes them
\* ------------------------------------------------------------------------
IsFlag(a, flags) == a.k = "s" /\ a.s \in flags

Rest(args) == SubSeq(args, 3, Len(args))

\* Only valid flags: any sequence of -name/-n <string> and
\* -position/-p <point>, the empty list included.
RECURSIVE OnlyValidFlags(_)
OnlyValidFlags(args) ==
    \/ args = <<>>
    \/ /\ Len(args) >= 2
       /\ \/ IsFlag(args[1], NameFlags) /\ args[2].k = "s"
          \/ IsFlag(args[1], PositionFlags) /\ args[2].k = "p"
       /\ OnlyValidFlags(Rest(args))

\* The list holds, where a flag is expected, an argument that is none of the
\* four flags, or a position flag whose point cannot be read.
RECURSIVE HasInvalidFlag(_)
HasInvalidFlag(args) ==
    /\ args # <<>>
    /\ \/ ~IsFlag(args[1], NameFlags \cup PositionFlags)
       \/ /\ IsFlag(args[1], PositionFlags)
          /\ (Len(args) < 2 \/ args[2].k # "p")
       \/ /\ IsFlag(args[1], NameFlags)
          /\ HasInvalidFlag(Rest(args))
       \/ /\ IsFlag(args[1], PositionFlags)
          /\ Len(args) >= 2 /\ args[2].k = "p"
          /\ HasInvalidFlag(Rest(args))

NewNodes == scene \ call.before

\* ------------------------------------------------------------------------
\* Claims
\* ------------------------------------------------------------------------

C2_UndoRestoresScene ==
    (call.op = "undoIt" /\ call.prevOp = "doIt" /\ call.prevStatus = kSuccess)
        => /\ scene = call.prevBefore
           /\ cmd.xhandleNode \in NodeIds(call.before)
           /\ cmd.xhandleNode \notin NodeIds(scene)
           /\ call.status = DeleteNodeStatus(call.before, cmd.xhandleNode)
           /\ call.status = kSuccess

C2_Witness ==
    /\ call.op = "undoIt"
    /\ call.prevOp = "doIt"
    /\ call.prevBefore # {}
    /\ scene = call.prevBefore
    /\ call.before # scene

\* C3: when doIt meets an argument that is not one of the four flags, or a
\* position flag whose point cannot be read, it returns MS::kFailure without
\* calling redoIt: the scene is unchanged and nodeCreated is false.
C3_InvalidFlagFails ==
    (call.op = "doIt" /\ HasInvalidFlag(call.args)) =>
        /\ call.status = kFailure
        /\ scene = call.before
        /\ cmd.nodeCreated = FALSE
        /\ phase = "failed"

C3_Witness ==
    /\ call.op = "doIt"
    /\ HasInvalidFlag(call.args)
    /\ cmd.positionSpecified
    /\ call.status = kFailure
    /\ scene # {}

\* C4: a successful initializePlugin leaves node type "xhandleShape" and
\* command "xhandle" registered, the node registered first; a successful
\* uninitializePlugin leaves neither registered.
C4_LoadUnloadRegistry ==
    /\ (pluginStatus = [fn |-> "initializePlugin", status |-> kSuccess]) =>
           /\ NodeTypeName \in nodeTypes
           /\ CommandName \in commands
           /\ hostCalls = << <<"registerNode", NodeTypeName, kSuccess>>,
                             <<"registerCommand", CommandName, kSuccess>> >>
    /\ (pluginStatus = [fn |-> "uninitializePlugin", status |-> kSuccess]) =>
           /\ nodeTypes = {}
           /\ commands = {}

C4_Witness ==
    /\ pluginStatus = [fn |-> "uninitializePlugin", status |-> kSuccess]
    /\ Len(hostCalls) = 2
    /\ created > 0

\* C5: when registering the node fails, initializePlugin returns that
\* failure at once and makes no attempt to register the command; when
\* de-registering the node fails, uninitializePlugin returns that failure
\* and makes no attempt to de-register the command.
C5_NodeFailureStopsPlugin ==
    (hostCalls # <<>> /\ hostCalls[1][3] # kSuccess) =>
        /\ Len(hostCalls) = 1
        /\ hostCalls[1][1] \in {"registerNode", "deregisterNode"}
        /\ pluginStatus.status = hostCalls[1][3]
        /\ pluginStatus.status # kSuccess

C5_Witness ==
    /\ pluginStatus.fn = "uninitializePlugin"
    /\ hostCalls = << <<"deregisterNode", NodeTypeName, kFailure>> >>
    /\ CommandName \in commands
    /\ NodeTypeName \in nodeTypes

\* ------------------------------------------------------------------------
\* Reading the GL call sequence of a draw
\* ------------------------------------------------------------------------
ShapesDrawn == drawIn.drawn /\ drawIn.style # "kBoundingBox"

PrimStarts == {i \in 1..Len(gl) : gl[i].fn = "glBegin"}

\* The vertices emitted after the glBegin at index i.
VertsAt(i) ==
    LET j == CHOOSE j \in (i + 1)..Len(gl) :
                 /\ gl[j].fn # "glVertex3f"
                 /\ \A k \in (i + 1)..(j - 1) : gl[k].fn = "glVertex3f"
    IN  [k \in 1..(j - i - 1) |-> gl[i + k].a]

ModeAt(i) == gl[i].e[1]

PrimsOf(mode) == {i \in PrimStarts : ModeAt(i) = mode}

LinePrims == PrimsOf("GL_LINE_LOOP") \cup PrimsOf("GL_LINES")

\* The distinct outlines (vertex lists) drawn.
Outlines == {VertsAt(i) : i \in PrimStarts}

\* An outline is emitted once as points and once as a line loop.
OncePointsOnceLoop(v) ==
    /\ Cardinality({i \in PrimsOf("GL_POINTS") : VertsAt(i) = v}) = 1
    /\ Cardinality({i \in PrimsOf("GL_LINE_LOOP") : VertsAt(i) = v}) = 1

CallsOf(fn) == {i \in 1..Len(gl) : gl[i].fn = fn}

Abs(x) == IF x < 0 THEN -x ELSE x

\* Every vertex of outline v lies within the square of half-size u.
InsideSquare(v, u) ==
    \A k \in 1..Len(v) : Abs(v[k][1]) < u /\ Abs(v[k][2]) < u /\ v[k][3] = 0

HalfTurnAboutZ == G("glRotatef", <<>>, <<180000, 0, 0, 1000>>)

\* The geometry each drawStyle stands for, with u the unit multiplier.
StyleGeometry(st, u) ==
    CASE st = 1 -> /\ Outlines = {TriangleVerts(u)}
                   /\ \A i \in 1..Len(gl) : gl[i] # HalfTurnAboutZ
      [] st = 2 -> /\ Outlines = {TriangleVerts(u)}
                   /\ \E i \in 1..Len(gl) :
                          /\ gl[i] = HalfTurnAboutZ
                          /\ \A p \in PrimStarts : i < p
      [] st = 3 -> Outlines = {SquareVerts(u)}
      [] st = 4 -> /\ Outlines = {OctagonVerts(u)}
                   /\ Len(OctagonVerts(u)) = 8
      [] st = 5 -> /\ Cardinality(Outlines) = 1
                   /\ \A v \in Outlines :
                          /\ Len(v) = 16
                          /\ \E f \in {6660} : v = CircleVertsBy(f, u)
      [] st = 6 -> /\ Cardinality(Outlines) = 2
                   /\ SquareVerts(u) \in Outlines
                   /\ \E v \in Outlines :
                          /\ Len(v) = 8
                          /\ InsideSquare(v, u)
                          /\ v = OctagonVertsBy(525, u)
      [] st = 7 -> /\ Cardinality(Outlines) = 2
                   /\ SquareVerts(u) \in Outlines
                   /\ \E v \in Outlines :
                          /\ Len(v) = 16
                          /\ InsideSquare(v, u)
                          /\ v = CircleVertsBy(3500, u)
      [] st = 8 -> /\ PrimStarts = PrimsOf("GL_LINES")
                   /\ Cardinality(PrimStarts) = 3
                   /\ Outlines = {<< <<u, 0, 0>>, <<-u, 0, 0>> >>,
                                  << <<0, u, 0>>, <<0, -u, 0>> >>,
                                  << <<0, 0, u>>, <<0, 0, -u>> >>}
      [] OTHER -> FALSE

\* ------------------------------------------------------------------------
\* Claims about the draw
\* ------------------------------------------------------------------------

\* C6: drawShapes selects the geometry by drawStyle (1 triangle, 2 the same
\* triangle turned by 180 degrees, 3 square, 4 octagon of the 8 handle_low
\* vertices, 5 circle of the 16 handle_high vertices, 6 octagon inside a
\* square, 7 circle inside a square, 8 three axis lines of 2 vertices);
\* for styles 1-7 each outline is emitted once as GL_POINTS and once as
\* GL_LINE_LOOP; for every value 1..8 exactly one case is taken.
C6_StyleSelectsGeometry ==
    ShapesDrawn =>
        /\ attrs.dDrawStyle \in 1..8
        /\ StyleGeometry(attrs.dDrawStyle, attrs.uMult)
        /\ (attrs.dDrawStyle \in 1..7) =>
               /\ \A v \in Outlines : OncePointsOnceLoop(v)
               /\ Cardinality(PrimStarts) = 2 * Cardinality(Outlines)
        /\ Cardinality({i \in 1..Len(gl) : gl[i] = RotateToXZ}) = 1

C6_Witness ==
    /\ ShapesDrawn
    /\ attrs.dDrawStyle = 7
    /\ Cardinality(PrimStarts) = 4
    /\ attrs.uMult = 10000

\* C7: for every drawStyle 1..8 drawShapes calls glLineWidth with the
\* wireframeThickness value before it emits the first line primitive, so
\* every line primitive of the shape is drawn at that thickness.
C7_LinesDrawnAtThickness ==
    ShapesDrawn =>
        \A p \in LinePrims :
            \E w \in CallsOf("glLineWidth") :
                /\ w < p
                /\ gl[w].a = <<attrs.dThickness>>
                /\ \A w2 \in CallsOf("glLineWidth") : w2 < p => w2 <= w

\* C8 as stated: whenever drawStyle is 8 and drawAxisColour is On, draw
\* renders three axis lines, one red, one green, one blue, each colour set
\* immediately before its line is emitted.
AxesColoured ==
    /\ Cardinality(PrimsOf("GL_LINES")) = 3
    /\ \A p \in PrimsOf("GL_LINES") : p > 1 /\ gl[p - 1].fn = "glColor3f"
    /\ {gl[p - 1].a : p \in PrimsOf("GL_LINES")} =
           {<<1000, 0, 0>>, <<0, 1000, 0>>, <<0, 0, 1000>>}

IsModelViewCall(c) ==
    c.fn \in {"glMultMatrixd", "glScaled", "glTranslated", "glRotated",
              "glRotatef"}

BlendIdx ==
    CHOOSE i \in 1..Len(gl) :
        /\ gl[i].e = <<"GL_BLEND">>
        /\ \A k \in 1..(i - 1) : gl[k].e # <<"GL_BLEND">>

ModelView == SelectSeq(SubSeq(gl, 1, BlendIdx - 1), IsModelViewCall)

LocalScaleProduct ==
    <<Mul(plugs.local.localScale[1], plugs.local.addScale[1]),
      Mul(plugs.local.localScale[2], plugs.local.addScale[2]),
      Mul(plugs.local.localScale[3], plugs.local.addScale[3])>>

\* C9: with drawOrtho On, draw issues its model-view calls in the order
\* glMultMatrixd(inverse inclusive matrix), glScaled(world scale) only if
\* transformScaling is On, glTranslated(localPosition), glTranslated(world
\* translation), glRotated(camera rotation), glScaled(localScale*addScale),
\* glRotatef(90, X); with drawOrtho Off it issues none of glMultMatrixd, the
\* world translation or the camera rotation.
C9_OrthoModelViewOrder ==
    drawIn.drawn =>
        /\ (plugs.drawOrtho = 1) =>
              ModelView =
                << G("glMultMatrixd", <<"pathInvMatrix">>, <<drawIn.g>>) >>
                \o (IF plugs.transformScaling = 1
                    THEN << G("glScaled", <<"scale">>,
                              WorldScale(drawIn.g)) >>
                    ELSE <<>>)
                \o << G("glTranslated", <<"l_position">>,
                        plugs.local.localPosition),
                      G("glTranslated", <<"trans_vec">>,
                        WorldTranslation(drawIn.g)),
                      G("glRotated", <<"camRotation">>,
                        <<RAD_TO_DEG(CameraTheta(drawIn.g))>>
                        \o CameraAxis(drawIn.g)),
                      G("glScaled", <<"l_scale*add_scale">>,
                        LocalScaleProduct),
                      G("glRotatef", <<>>, <<90000, 1000, 0, 0>>) >>
        /\ (plugs.drawOrtho = 0) =>
              \A i \in 1..Len(gl) :
                  /\ gl[i].fn \notin {"glMultMatrixd", "glRotated"}
                  /\ gl[i].e # <<"trans_vec">>

C9_Witness ==
    /\ drawIn.drawn
    /\ plugs.drawOrtho = 1
    /\ plugs.transformScaling = 1
    /\ drawIn.g = 1
    /\ Len(ModelView) = 7

\* C10: with drawOrtho Off, draw issues glScaled(inverse world scale) exactly
\* when transformScaling is Off; with drawOrtho On, it issues glScaled(world
\* scale) exactly when transformScaling is On; in each of the four
\* combinations at most one parent-scale call is issued and it precedes the
\* localPosition translate.
ParentScaleCalls ==
    {i \in 1..Len(gl) :
        gl[i].fn = "glScaled" /\ gl[i].e \in {<<"scale">>, <<"inv_scale">>}}

C10_TransformScaling ==
    drawIn.drawn =>
        /\ (plugs.drawOrtho = 0) =>
              /\ \A i \in ParentScaleCalls :
                     gl[i] = G("glScaled", <<"inv_scale">>,
                               WorldInvScale(drawIn.g))
              /\ (ParentScaleCalls # {}) <=> (plugs.transformScaling = 0)
        /\ (plugs.drawOrtho = 1) =>
              /\ \A i \in ParentScaleCalls :
                     gl[i] = G("glScaled", <<"scale">>, WorldScale(drawIn.g))
              /\ (ParentScaleCalls # {}) <=> (plugs.transformScaling = 1)
        /\ Cardinality(ParentScaleCalls) <= 1
        /\ \A i \in ParentScaleCalls :
               \A t \in 1..Len(gl) : gl[t].e = <<"l_position">> => i < t
        /\ \E t \in 1..Len(gl) : gl[t].e = <<"l_position">>

C10_Witness ==
    /\ drawIn.drawn
    /\ plugs.drawOrtho = 0
    /\ plugs.transformScaling = 0
    /\ drawIn.g = 1
    /\ Cardinality(ParentScaleCalls) = 1

\* The calls of draw that set the blend state, in order.
IsBlendCall(c) == c.e = <<"GL_BLEND">> \/ c.fn = "glBlendFunc"

BlendCalls == SelectSeq(gl, IsBlendCall)

\* The first call of the drawShapes part of draw: its glEnable(GL_LINE_SMOOTH)
\* prologue, or the closing endGL when the display style draws no shape.
ShapesIdx ==
    CHOOSE i \in 1..Len(gl) :
        /\ gl[i].e = <<"GL_LINE_SMOOTH">> \/ gl[i].fn = "endGL"
        /\ \A k \in 1..(i - 1) :
               gl[k].e # <<"GL_LINE_SMOOTH">> /\ gl[k].fn # "endGL"

\* C11: every draw applies exactly one blend setting, before drawShapes:
\* with blendColour On, glEnable(GL_BLEND) followed by
\* glBlendFunc(GL_DST_COLOR, GL_SRC_COLOR); with blendColour Off,
\* glDisable(GL_BLEND) and no glBlendFunc call.
C11_OneBlendSetting ==
    drawIn.drawn =>
        /\ (plugs.blendColour = 1) =>
              /\ BlendCalls =
                    << G("glEnable", <<"GL_BLEND">>, <<>>),
                       G("glBlendFunc", <<"GL_DST_COLOR", "GL_SRC_COLOR">>,
                         <<>>) >>
              /\ gl[BlendIdx + 1].fn = "glBlendFunc"
        /\ (plugs.blendColour = 0) =>
              BlendCalls = << G("glDisable", <<"GL_BLEND">>, <<>>) >>
        /\ \A i \in 1..Len(gl) : IsBlendCall(gl[i]) => i < ShapesIdx

C11_Witness ==
    /\ ShapesDrawn
    /\ plugs.blendColour = 1
    /\ Len(BlendCalls) = 2
    /\ BlendIdx + 1 < ShapesIdx
    /\ \E i \in PrimStarts : ShapesIdx < i

\* A primitive is open after call i: the last glBegin / glEnd among the
\* first i calls is a glBegin.
OpenAfter(i) ==
    LET be == {j \in 1..i : gl[j].fn \in {"glBegin", "glEnd"}}
    IN  /\ be # {}
        /\ gl[CHOOSE j \in be : \A k \in be : k <= j].fn = "glBegin"

StateSetting ==
    {"glEnable", "glLineWidth", "glPointSize", "glPolygonMode", "glRotatef",
     "glColor3f"}

\* C12: in drawShapes of each of the three source files, for every drawStyle
\* and attribute combination, glBegin and glEnd strictly alternate starting
\* with glBegin: every glVertex3f lies inside an open primitive, no glBegin
\* is issued while one is open, no state-setting call is issued inside an
\* open primitive, and none is open when drawShapes returns.
C12_BeginEndAlternate ==
    drawIn.drawn =>
        /\ \A i \in 1..Len(gl) :
              /\ gl[i].fn = "glBegin" => ~OpenAfter(i - 1)
              /\ gl[i].fn = "glEnd" => OpenAfter(i - 1)
              /\ gl[i].fn = "glVertex3f" => OpenAfter(i - 1)
              /\ gl[i].fn \in StateSetting => ~OpenAfter(i - 1)
        /\ ~OpenAfter(Len(gl))

C12_Witness ==
    /\ drawIn.drawn
    /\ build = "mrt_xhandleShapePlu.h"
    /\ plugs.drawStyle = 8
    /\ Cardinality(PrimStarts) = 3
    /\ Cardinality(CallsOf("glEnd")) = 3
    /\ Cardinality(CallsOf("glColor3f")) = 3

\* The name a valid argument list asks for: the string after the last
\* -name / -n flag, "" when there is none.
RECURSIVE NameAsked(_, _)
NameAsked(args, cur) ==
    IF Len(args) < 2 THEN cur
    ELSE NameAsked(Rest(args),
                   IF IsFlag(args[1], NameFlags) THEN args[2].s ELSE cur)

\* The parent transform the command created, and the names of the other nodes.
CreatedTransform == CHOOSE n \in scene : n.id = cmd.xhandleNode
OtherNames == {n.name : n \in {m \in scene : m.id # cmd.xhandleNode}}

Executed ==
    /\ call.op \in {"doIt", "redoIt"}
    /\ call.status = kSuccess
    /\ OnlyValidFlags(call.args)

\* The result is the created transform's name; a non-empty name asked for
\* was handed to setName and the result is what the host made of it.
ResultIsActualName ==
    /\ cmd.xhandleNode \in NodeIds(scene)
    /\ result = CreatedTransform.name
    /\ (NameAsked(call.args, "") # "") =>
           result = RenamedTo(NameAsked(call.args, ""), OtherNames)
    /\ (NameAsked(call.args, "") = "") =>
           result = HostName("transform", NodeNames(call.before))

RECURSIVE PositionAsked(_, _)
PositionAsked(args, cur) ==
    IF Len(args) < 2 THEN cur
    ELSE PositionAsked(Rest(args),
                       IF IsFlag(args[1], PositionFlags)
                       THEN [asked |-> TRUE, p |-> args[2].p] ELSE cur)

NoPosition == [asked |-> FALSE, p |-> Origin]

\* The xhandleShape node under the transform the command created.
CreatedShape == CHOOSE n \in scene : n.parent = cmd.xhandleNode

\* C14: redoIt (run by doIt or as a redo) writes localPositionX, Y and Z of
\* the new shape with the given point exactly when a -position / -p flag was
\* supplied to doIt; otherwise it writes no localPosition plug and the node
\* keeps the host's default local position.
C14_PositionWrittenWhenGiven ==
    Executed =>
        LET pos == PositionAsked(call.args, NoPosition)
        IN  /\ \E n \in scene : n.parent = cmd.xhandleNode
            /\ pos.asked =>
                  /\ call.writes = << <<"localPositionX", pos.p[1]>>,
                                      <<"localPositionY", pos.p[2]>>,
                                      <<"localPositionZ", pos.p[3]>> >>
                  /\ CreatedShape.localPosition = pos.p
            /\ ~pos.asked =>
                  /\ call.writes = <<>>
                  /\ CreatedShape.localPosition = Origin

C14_Witness ==
    /\ call.op = "redoIt"
    /\ call.status = kSuccess
    /\ call.args = <<StrArg("-p"), PtArg(GivenPoint)>>
    /\ Len(call.writes) = 3
    /\ CreatedShape.localPosition = GivenPoint

\* C15: xhandleShape::compute returns MS::kUnknownParameter for every plug
\* and neither reads nor writes the data block.
C15_ComputeUnknownParameter ==
    computeCall.done =>
        /\ computeCall.status = kUnknownParameter
        /\ computeCall.reads = {}
        /\ plugs = computeCall.before

C15_Witness ==
    /\ computeCall.done
    /\ computeCall.plug = "drawStyle"
    /\ plugs.drawStyle = DrawStyleMax
    /\ computeCall.status = kUnknownParameter

====
